---- MODULE Spec2Model ----
(***************************************************************************)
(* Tic-tac-toe against a minimax opponent (src/src/game.rs, src/src/ui.rs). *)
(*                                                                         *)
(* Option<T> values are modelled as sequences of length at most one:       *)
(* None is <<>> and Some(v) is <<v>>.  A board is the array `cells`, a     *)
(* function from the linear index 0..8 to Option<Player>.                  *)
(***************************************************************************)
EXTENDS Integers, Sequences, FiniteSets, TLC

\* ----------------------------------------------------------------- bounds
\* place is called with row, col in 0..MaxCoord; 3..MaxCoord are out of bounds.
MaxCoord == 3

\* ------------------------------------------------------------ Option<T>
None == <<>>
Some(v) == <<v>>
is_none(o) == o = None
is_some(o) == o # None
unwrap(o) == o[1]

\* --------------------------------------------------------------- Player
Players == {"X", "O"}

other(p) == IF p = "X" THEN "O" ELSE "X"

to_char(p) == IF p = "X" THEN "X" ELSE "O"

\* ---------------------------------------------------------------- Board
Indices == 0 .. 8
Occupants == {None} \cup {Some(p) : p \in Players}
Boards == [Indices -> Occupants]

\* Board::new
new == [i \in Indices |-> None]

\* Board::idx
idx_transposed(row, col) == col * 3 + row

idx(row, col) == row * 3 + col

\* Board::place: the board after the call and the boolean it returns.
place_accepts_out_of_bounds(cells, row, col, p) ==
    IF row >= 3 \/ col >= 3
    THEN [cells |-> cells, ret |-> TRUE]
    ELSE LET i == idx(row, col) IN
         IF is_none(cells[i])
         THEN [cells |-> [cells EXCEPT ![i] = Some(p)], ret |-> TRUE]
         ELSE [cells |-> cells, ret |-> FALSE]

place_overwrites(cells, row, col, p) ==
    IF row >= 3 \/ col >= 3
    THEN [cells |-> cells, ret |-> FALSE]
    ELSE LET i == idx(row, col) IN
         IF is_none(cells[i])
         THEN [cells |-> [cells EXCEPT ![i] = Some(p)], ret |-> TRUE]
         ELSE [cells |-> [cells EXCEPT ![i] = Some(p)], ret |-> FALSE]

place_unchecked(cells, row, col, p) ==
    IF row >= 3 \/ col >= 3
    THEN [cells |-> cells, ret |-> FALSE]
    ELSE LET i == idx(row, col) IN
         [cells |-> [cells EXCEPT ![i] = Some(p)], ret |-> TRUE]

place(cells, row, col, p) ==
    IF row >= 3 \/ col >= 3
    THEN [cells |-> cells, ret |-> FALSE]
    ELSE LET i == idx(row, col) IN
         IF is_none(cells[i])
         THEN [cells |-> [cells EXCEPT ![i] = Some(p)], ret |-> TRUE]
         ELSE [cells |-> cells, ret |-> FALSE]

\* Board::available_moves: the indices 0..8 in increasing order, filtered to
\* those of the empty cells.
enumerate == [k \in 1 .. 9 |-> k - 1]

available_moves_short(cells) ==
    SelectSeq(enumerate, LAMBDA i : is_none(cells[i]) /\ i < 8)

available_moves(cells) == SelectSeq(enumerate, LAMBDA i : is_none(cells[i]))

\* Board::is_full
is_full(cells) == \A i \in Indices : is_some(cells[i])

\* Board::winner: the eight lines, checked in the listed order.
lines_bad_diagonal ==
    << <<0, 1, 2>>, <<3, 4, 5>>, <<6, 7, 8>>,
       <<0, 3, 6>>, <<1, 4, 7>>, <<2, 5, 8>>,
       <<0, 4, 8>>, <<2, 4, 5>> >>

lines ==
    << <<0, 1, 2>>, <<3, 4, 5>>, <<6, 7, 8>>,
       <<0, 3, 6>>, <<1, 4, 7>>, <<2, 5, 8>>,
       <<0, 4, 8>>, <<2, 4, 6>> >>

\* scan[k] is the result of the for loop from the k-th line on.
winner(cells) ==
    LET scan[k \in 1 .. Len(lines) + 1] ==
            IF k > Len(lines) THEN None
            ELSE LET a == cells[lines[k][1]]
                     b == cells[lines[k][2]]
                     c == cells[lines[k][3]]
                 IN IF is_some(a) /\ is_some(b) /\ is_some(c) /\ a = b /\ b = c
                    THEN a
                    ELSE scan[k + 1]
    IN scan[1]

\* --------------------------------------------------------------- Solver
\* i32::MIN and i32::MAX, the initial best_score of a node.
I32_MIN_worst_score == 0 - 1

I32_MIN == -2147483647 - 1
I32_MAX == 2147483647 + 0

\* The comparison that replaces best_score and best_move (strict, so the first
\* of several equal scores is kept).
better_swapped(current, ai, score, best_score) ==
    IF current = ai THEN score < best_score ELSE score > best_score

better_always_max(current, ai, score, best_score) ==
    IF current = ai THEN score > best_score ELSE score > best_score

better_always_min(current, ai, score, best_score) ==
    IF current = ai THEN score < best_score ELSE score < best_score

better_last_wins(current, ai, score, best_score) ==
    IF current = ai THEN score >= best_score ELSE score <= best_score

better(current, ai, score, best_score) ==
    IF current = ai THEN score > best_score ELSE score < best_score

\* minimax is a pure function of (board, current, ai), and each of its recursive
\* calls is on a board with one empty cell fewer.  Its results are therefore
\* tabulated by the number of empty cells: the table of the boards with n empty
\* cells is computed, by the body of minimax, from the table of the boards with
\* n - 1 empty cells.  A board is numbered by board_code, and a table holds, for
\* each board, the results of the four calls (current, ai) on it.
empties(cells) == Cardinality({i \in Indices : is_none(cells[i])})

digit(o) == IF is_none(o) THEN 0 ELSE IF unwrap(o) = "X" THEN 1 ELSE 2
occupant(d) == IF d = 0 THEN None ELSE IF d = 1 THEN Some("X") ELSE Some("O")

board_code(cells) ==
    digit(cells[0]) + 3 * (digit(cells[1]) + 3 * (digit(cells[2])
    + 3 * (digit(cells[3]) + 3 * (digit(cells[4]) + 3 * (digit(cells[5])
    + 3 * (digit(cells[6]) + 3 * (digit(cells[7]) + 3 * digit(cells[8]))))))))

pow3 == <<1, 3, 9, 27, 81, 243, 729, 2187, 6561, 19683>>

BoardCodes == 0 .. (pow3[10] - 1)
board_of == [c \in BoardCodes |-> [i \in Indices |-> occupant((c \div pow3[i + 1]) % 3)]]
empties_of == [c \in BoardCodes |-> empties(board_of[c])]

\* The result of the call (cells, current, ai) in the table `sub`.
lookup(sub, cells, current, ai) == sub[board_code(cells)][current][ai]

\* `let mut next = board.clone(); next.cells[mv] = Some(current);`: the
\* caller's board and the copy `next` after the two statements.
clone_and_set_in_place(cells, mv, current) ==
    [caller |-> [cells EXCEPT ![mv] = Some(current)],
     next |-> [cells EXCEPT ![mv] = Some(current)]]

clone_and_set_wrong_mark(cells, mv, current) ==
    [caller |-> cells,
     next |-> [cells EXCEPT ![mv] = Some(other(current))]]

clone_and_set(cells, mv, current) ==
    [caller |-> cells,
     next |-> [cells EXCEPT ![mv] = Some(current)]]

\* minimax with the fullness check made before the winner check.
minimax_body_full_first(cells, current, ai, sub) ==
    LET w == winner(cells) IN
    IF is_full(cells)
    THEN [score |-> 0, move |-> None]
    ELSE IF is_some(w)
    THEN IF unwrap(w) = ai
         THEN [score |-> 1, move |-> None]
         ELSE [score |-> -1, move |-> None]
    ELSE LET moves == available_moves(cells)
             after[k \in 0 .. Len(moves)] ==
                 IF k = 0
                 THEN [score |-> IF current = ai THEN I32_MIN ELSE I32_MAX,
                       move |-> None]
                 ELSE LET best == after[k - 1]
                          mv == moves[k]
                          next == clone_and_set(cells, mv, current).next
                          score == lookup(sub, next, other(current), ai).score
                      IN IF better(current, ai, score, best.score)
                         THEN [score |-> score, move |-> Some(mv)]
                         ELSE best
         IN after[Len(moves)]

\* The body of minimax: (score, best_move_index).  after[k] is the pair
\* (best_score, best_move) after the first k iterations of the for loop over
\* available_moves(); `sub` is the table that holds the results of the
\* recursive calls.
minimax_body(cells, current, ai, sub) ==
    LET w == winner(cells) IN
    IF is_some(w)
    THEN IF unwrap(w) = ai
         THEN [score |-> 1, move |-> None]
         ELSE [score |-> -1, move |-> None]
    ELSE IF is_full(cells)
    THEN [score |-> 0, move |-> None]
    ELSE LET moves == available_moves(cells)
             after[k \in 0 .. Len(moves)] ==
                 IF k = 0
                 THEN [score |-> IF current = ai THEN I32_MIN ELSE I32_MAX,
                       move |-> None]
                 ELSE LET best == after[k - 1]
                          mv == moves[k]
                          next == clone_and_set(cells, mv, current).next
                          score == lookup(sub, next, other(current), ai).score
                      IN IF better(current, ai, score, best.score)
                         THEN [score |-> score, move |-> Some(mv)]
                         ELSE best
         IN after[Len(moves)]

minimax_table(n, sub) ==
    [c \in BoardCodes |->
        IF empties_of[c] = n
        THEN [current \in Players |->
                 [ai \in Players |-> minimax_body(board_of[c], current, ai, sub)]]
        ELSE None]

minimax_0 == minimax_table(0, <<>>)
minimax_1 == minimax_table(1, minimax_0)
minimax_2 == minimax_table(2, minimax_1)
minimax_3 == minimax_table(3, minimax_2)
minimax_4 == minimax_table(4, minimax_3)
minimax_5 == minimax_table(5, minimax_4)
minimax_6 == minimax_table(6, minimax_5)
minimax_7 == minimax_table(7, minimax_6)
minimax_8 == minimax_table(8, minimax_7)
minimax_9 == minimax_table(9, minimax_8)

minimax_tables ==
    << minimax_0, minimax_1, minimax_2, minimax_3, minimax_4,
       minimax_5, minimax_6, minimax_7, minimax_8, minimax_9 >>

minimax(cells, current, ai) ==
    lookup(minimax_tables[empties(cells) + 1], cells, current, ai)

\* The caller's board when minimax returns: left[k] is the caller's board after
\* the first k iterations of the for loop.
minimax_leaves(cells, current, ai) ==
    IF is_some(winner(cells)) \/ is_full(cells)
    THEN cells
    ELSE LET moves == available_moves(cells)
             left[k \in 0 .. Len(moves)] ==
                 IF k = 0 THEN cells
                 ELSE clone_and_set(left[k - 1], moves[k], current).caller
         IN left[Len(moves)]

find_best_move_wrong_mover(cells, ai) == minimax(cells, other(ai), ai).move

find_best_move(cells, ai) == minimax(cells, ai, ai).move

\* ---------------------------------------------------------------- Input
\* A line of input is the sequence of its characters, line terminator included;
\* read_line at end of input reads no character.
EOF == <<>>

Whitespace == {" ", "\t", "\n", "\r"}

DigitChars == <<"0", "1", "2", "3", "4", "5", "6", "7", "8", "9">>

\* str::trim: the string without its leading and trailing whitespace.
trim(s) ==
    LET kept == {i \in 1 .. Len(s) : s[i] \notin Whitespace}
    IN IF kept = {} THEN <<>>
       ELSE SubSeq(s, CHOOSE i \in kept : \A j \in kept : i <= j,
                      CHOOSE i \in kept : \A j \in kept : j <= i)

\* str::to_uppercase, on the letters the input lines are made of.
to_uppercase(s) ==
    [i \in 1 .. Len(s) |->
        IF s[i] = "x" THEN "X"
        ELSE IF s[i] = "o" THEN "O"
        ELSE IF s[i] = "z" THEN "Z"
        ELSE IF s[i] = "a" THEN "A"
        ELSE s[i]]

\* str::split(':'): the pieces between the colons; parts[k] is the split of the
\* first k characters.
split(s) ==
    LET parts[k \in 0 .. Len(s)] ==
            IF k = 0 THEN << <<>> >>
            ELSE IF s[k] = ":" THEN Append(parts[k - 1], <<>>)
            ELSE [parts[k - 1] EXCEPT ![Len(parts[k - 1])] = Append(@, s[k])]
    IN parts[Len(s)]

\* str::parse::<usize>().ok(): an optional '+' followed by one or more decimal
\* digits.  (A value over usize::MAX is an error too; it takes more digits than
\* an input line of the model has.)
parse_usize(s) ==
    LET digits == IF s # <<>> /\ s[1] = "+" THEN Tail(s) ELSE s
        value[k \in 0 .. Len(digits)] ==
            IF k = 0 THEN 0
            ELSE 10 * value[k - 1]
                 + (CHOOSE d \in 0 .. 9 : DigitChars[d + 1] = digits[k])
    IN IF digits = <<>> \/ \E k \in 1 .. Len(digits) :
                               \A d \in 1 .. 10 : DigitChars[d] # digits[k]
       THEN None
       ELSE Some(value[Len(digits)])

parse_coord(s) ==
    LET parts == split(trim(s)) IN
    IF Len(parts) # 2 THEN None
    ELSE LET r == parse_usize(trim(parts[1]))
             c == parse_usize(trim(parts[2]))
         IN IF is_none(r) \/ is_none(c) THEN None
            ELSE IF unwrap(r) < 3 /\ unwrap(c) < 3
            THEN Some(<<unwrap(r), unwrap(c)>>)
            ELSE None

\* ================================================================ state
VARIABLES
    board,      \* Board.cells of the board in use
    last,       \* the call of Board::place that has just run and whose result
                \* the caller has not yet taken: its arguments, the board before
                \* it and the boolean it returned; NoCall between calls
    placed,     \* the calls of Board::place that returned true, as <<row, col, p>>
    turn,       \* the player whose turn it is
    found,      \* the call of find_best_move that has just run: the ai_player
                \* it was given and the Option<usize> it returned; NoCall if none
    pc,         \* where play_game is
    user_player,    \* play_game's user_player, None until it is chosen
    ai_player,      \* play_game's ai_player, None until user_player is chosen
    written     \* the last line play_game has written

game == <<pc, user_player, ai_player, written>>

vars == <<board, last, placed, turn, found, game>>

NoCall == [op |-> "none"]

\* ------------------------------------------------- Spec: the Board interface
\* A caller makes any sequence of Board::place calls on a board made by
\* Board::new, with any arguments.
Coords == 0 .. MaxCoord

Init ==
    /\ board = new
    /\ last = NoCall
    /\ placed = {}
    /\ turn = "X"
    /\ found = NoCall
    /\ pc = "not_called"
    /\ user_player = None
    /\ ai_player = None
    /\ written = ""

Place(row, col, p) ==
    /\ last = NoCall
    /\ LET r == place(board, row, col, p) IN
       /\ board' = r.cells
       /\ last' = [op |-> "place", row |-> row, col |-> col, p |-> p,
                   ret |-> r.ret, before |-> board]
       /\ placed' = IF r.ret THEN placed \cup {<<row, col, p>>} ELSE placed
    /\ UNCHANGED <<turn, found, game>>

\* The caller takes the result.
Return ==
    /\ last # NoCall
    /\ last' = NoCall
    /\ UNCHANGED <<board, placed, turn, found, game>>

Next ==
    \/ \E row \in Coords, col \in Coords, p \in Players : Place(row, col, p)
    \/ Return

Spec == Init /\ [][Next]_vars

\* ------------------------------------------- SolverSpec: find_best_move
\* find_best_move is called on any board, for either ai_player.
SolverInit ==
    /\ board \in Boards
    /\ last = NoCall
    /\ placed = {}
    /\ turn = "X"
    /\ found = NoCall
    /\ pc = "not_called"
    /\ user_player = None
    /\ ai_player = None
    /\ written = ""

FindBestMove(ai) ==
    /\ found = NoCall
    /\ found' = [op |-> "find_best_move", ai |-> ai, before |-> board,
                 move |-> find_best_move(board, ai)]
    /\ board' = minimax_leaves(board, ai, ai)
    /\ UNCHANGED <<last, placed, turn, game>>

SolverNext == \E ai \in Players : FindBestMove(ai)

SolverSpec == SolverInit /\ [][SolverNext]_vars

\* ------------------------------------------------- SearchSpec: minimax
\* minimax is called on any board, for any player to move and either ai, as
\* find_best_move and the search itself call it.
MinimaxCall(current, ai) ==
    /\ found = NoCall
    /\ LET r == minimax(board, current, ai) IN
       found' = [op |-> "minimax", current |-> current, ai |-> ai,
                 before |-> board, score |-> r.score, move |-> r.move]
    /\ board' = minimax_leaves(board, current, ai)
    /\ UNCHANGED <<last, placed, turn, game>>

SearchNext ==
    \/ \E ai \in Players : FindBestMove(ai)
    \/ \E current \in Players, ai \in Players : MinimaxCall(current, ai)

SearchSpec == SolverInit /\ [][SearchNext]_vars

\* ------------------------------------------------ GameSpec: legal play
\* The two players place alternately, X first, from the empty board, until the
\* board has a winner or is full; on a board that is not finished the solver may
\* be asked for the move of the player whose turn it is.
Terminal_only_full(b) == is_full(b)

Terminal(b) == is_some(winner(b)) \/ is_full(b)

Move(row, col) ==
    /\ ~Terminal(board)
    /\ LET r == place(board, row, col, turn) IN
       /\ r.ret
       /\ board' = r.cells
    /\ turn' = other(turn)
    /\ found' = NoCall
    /\ UNCHANGED <<last, placed, game>>

AskSolver ==
    /\ ~Terminal(board)
    /\ found = NoCall
    /\ found' = [op |-> "find_best_move", ai |-> turn, before |-> board,
                 move |-> find_best_move(board, turn)]
    /\ board' = minimax_leaves(board, turn, turn)
    /\ UNCHANGED <<last, placed, turn, game>>

GameNext ==
    \/ \E row \in 0 .. 2, col \in 0 .. 2 : Move(row, col)
    \/ AskSolver

GameSpec == Init /\ [][GameNext]_vars

\* ------------------------------------------------- PlaySpec: play_game
\* play_game reads its lines from any input: the coordinate lines, well formed
\* or not, and the symbol lines, in any order, and the end of input anywhere.
CoordLine(r, c) == <<DigitChars[r + 1], ":", DigitChars[c + 1], "\n">>

InputLines ==
    {CoordLine(r, c) : r \in Coords, c \in Coords} \cup
    { <<"X", "\n">>, <<"x", "\n">>, <<" ", "o", " ", "\n">>, <<"O">>,
      <<"Z", "\n">>, <<"\n">>,
      <<" ", "1", " ", ":", " ", "2", " ", "\n">>,
      <<"+", "1", ":", "+", "1", "\n">>, <<"0", "2", ":", "0", "\n">>,
      <<"1", "\n">>, <<"1", ":", "2", ":", "0", "\n">>, <<"2", ":", "\n">>,
      <<"a", ":", "1", "\n">>, <<"-", "1", ":", "0", "\n">> }

Inputs == InputLines \cup {EOF}

\* play_game has written its title and waits for the symbol.
PlayInit ==
    /\ board = new
    /\ last = NoCall
    /\ placed = {}
    /\ turn = "X"
    /\ found = NoCall
    /\ pc = "choose"
    /\ user_player = None
    /\ ai_player = None
    /\ written = "Tres en raya - Juego contra la maquina"

\* One round of the symbol loop, and what follows it up to the main loop.
ChooseSymbol(input) ==
    /\ pc = "choose"
    /\ IF input = EOF
       THEN /\ pc' = "returned_ok"
            /\ UNCHANGED <<board, turn, user_player, ai_player, written>>
       ELSE LET ch == to_uppercase(trim(input)) IN
            IF ch = <<"X">> \/ ch = <<"O">>
            THEN /\ user_player' = Some(ch[1])
                 /\ ai_player' = Some(other(ch[1]))
                 /\ written' = "Jugaras con " \o to_char(ch[1])
                               \o ". La maquina es " \o to_char(other(ch[1])) \o "."
                 /\ board' = new
                 /\ turn' = "X"
                 /\ pc' = "loop"
            ELSE /\ written' = "Entrada invalida. Escribe X u O."
                 /\ UNCHANGED <<board, turn, user_player, ai_player, pc>>
    /\ UNCHANGED <<last, placed, found>>

\* The head of the main loop that starts the loop again, instead of leaving
\* it, when the game is over.
LoopTop_continues ==
    /\ pc = "loop"
    /\ LET w == winner(board) IN
       IF is_some(w)
       THEN /\ written' = "Gana " \o to_char(unwrap(w)) \o "!"
            /\ pc' = "loop"
       ELSE IF is_full(board)
       THEN /\ written' = "Empate."
            /\ pc' = "loop"
       ELSE /\ pc' = IF Some(turn) = user_player THEN "user" ELSE "ai"
            /\ UNCHANGED written
    /\ UNCHANGED <<board, last, placed, turn, found, user_player, ai_player>>

\* The head of the main loop with the draw check made before the winner check.
LoopTop_full_first ==
    /\ pc = "loop"
    /\ LET w == winner(board) IN
       IF is_full(board)
       THEN /\ written' = "Empate."
            /\ pc' = "finish"
       ELSE IF is_some(w)
       THEN /\ written' = "Gana " \o to_char(unwrap(w)) \o "!"
            /\ pc' = "finish"
       ELSE /\ pc' = IF Some(turn) = user_player THEN "user" ELSE "ai"
            /\ UNCHANGED written
    /\ UNCHANGED <<board, last, placed, turn, found, user_player, ai_player>>

\* The head of the main loop without the draw check.
LoopTop_ignores_full ==
    /\ pc = "loop"
    /\ LET w == winner(board) IN
       IF is_some(w)
       THEN /\ written' = "Gana " \o to_char(unwrap(w)) \o "!"
            /\ pc' = "finish"
       ELSE /\ pc' = IF Some(turn) = user_player THEN "user" ELSE "ai"
            /\ UNCHANGED written
    /\ UNCHANGED <<board, last, placed, turn, found, user_player, ai_player>>

\* The head of the main loop: the board is printed, then the game is over or
\* it is somebody's turn.
LoopTop ==
    /\ pc = "loop"
    /\ LET w == winner(board) IN
       IF is_some(w)
       THEN /\ written' = "Gana " \o to_char(unwrap(w)) \o "!"
            /\ pc' = "finish"
       ELSE IF is_full(board)
       THEN /\ written' = "Empate."
            /\ pc' = "finish"
       ELSE /\ pc' = IF Some(turn) = user_player THEN "user" ELSE "ai"
            /\ UNCHANGED written
    /\ UNCHANGED <<board, last, placed, turn, found, user_player, ai_player>>

\* One round of the user's loop in which a rejected placement passes the turn.
UserTurn_passes_on_reject(input) ==
    /\ pc = "user"
    /\ IF input = EOF
       THEN /\ pc' = "returned_ok"
            /\ UNCHANGED <<board, turn, written>>
       ELSE LET rc == parse_coord(input) IN
            IF is_some(rc)
            THEN LET res == place(board, unwrap(rc)[1], unwrap(rc)[2],
                                  unwrap(user_player)) IN
                 /\ board' = res.cells
                 /\ turn' = other(turn)
                 /\ pc' = "loop"
                 /\ written' = IF res.ret THEN written
                               ELSE "Casilla ocupada o coordenada invalida."
            ELSE /\ written' = "Formato invalido. Usa e.g. 1:2"
                 /\ UNCHANGED <<board, turn, pc>>
    /\ UNCHANGED <<last, placed, found, user_player, ai_player>>

\* One round of the user's loop.
UserTurn(input) ==
    /\ pc = "user"
    /\ IF input = EOF
       THEN /\ pc' = "returned_ok"
            /\ UNCHANGED <<board, turn, written>>
       ELSE LET rc == parse_coord(input) IN
            IF is_some(rc)
            THEN LET res == place(board, unwrap(rc)[1], unwrap(rc)[2],
                                  unwrap(user_player)) IN
                 /\ board' = res.cells
                 /\ IF res.ret
                    THEN /\ turn' = other(turn)
                         /\ pc' = "loop"
                         /\ UNCHANGED written
                    ELSE /\ written' = "Casilla ocupada o coordenada invalida."
                         /\ UNCHANGED <<turn, pc>>
            ELSE /\ written' = "Formato invalido. Usa e.g. 1:2"
                 /\ UNCHANGED <<board, turn, pc>>
    /\ UNCHANGED <<last, placed, found, user_player, ai_player>>

\* The machine's turn: the move of find_best_move, or else the first available
\* move, is placed and announced.
AiTurn ==
    /\ pc = "ai"
    /\ LET ai == unwrap(ai_player)
           best == find_best_move(board, ai)
           after == minimax_leaves(board, ai, ai)
           moves == available_moves(after)
           mv == IF is_some(best) THEN best
                 ELSE IF moves # <<>> THEN Some(moves[1]) ELSE None
       IN /\ found' = [op |-> "find_best_move", ai |-> ai, before |-> board,
                       move |-> best]
          /\ IF is_some(mv)
             THEN LET r == unwrap(mv) \div 3
                      c == unwrap(mv) % 3
                  IN /\ board' = place(after, r, c, ai).cells
                     /\ written' = "La maquina juega " \o DigitChars[r + 1]
                                   \o ":" \o DigitChars[c + 1]
             ELSE /\ board' = after
                  /\ written' = "Turno de la maquina (" \o to_char(ai)
                                \o "). Pensando..."
    /\ turn' = other(turn)
    /\ pc' = "loop"
    /\ UNCHANGED <<last, placed, user_player, ai_player>>

\* After the main loop: the board is printed once more, then the last line.
Finish ==
    /\ pc = "finish"
    /\ written' = "Fin del juego."
    /\ pc' = "returned_ok"
    /\ UNCHANGED <<board, last, placed, turn, found, user_player, ai_player>>

\* A read or a write fails: the `?` returns the error from play_game.
IoError ==
    /\ pc \in {"choose", "loop", "user", "ai", "finish"}
    /\ pc' = "returned_err"
    /\ UNCHANGED <<board, last, placed, turn, found, user_player, ai_player, written>>

PlayNext ==
    \/ \E input \in Inputs : ChooseSymbol(input)
    \/ LoopTop
    \/ \E input \in Inputs : UserTurn(input)
    \/ AiTurn
    \/ Finish
    \/ IoError

PlaySpec == PlayInit /\ [][PlayNext]_vars

\* play_game is sequential code that runs on: each step that needs no input
\* is eventually taken.  A read blocks until the human answers; the human
\* eventually answers each prompt with an input that leaves it: a symbol or the
\* end of input at the symbol prompt, a legal move or the end of input at the
\* move prompt.
SymbolAnswered == \E input \in Inputs : ChooseSymbol(input) /\ pc' # "choose"
MoveAnswered == \E input \in Inputs : UserTurn(input) /\ pc' # "user"

FairPlaySpec ==
    /\ PlaySpec
    /\ WF_vars(LoopTop) /\ WF_vars(AiTurn) /\ WF_vars(Finish)
    /\ WF_vars(SymbolAnswered) /\ WF_vars(MoveAnswered)

\* ------------------------------------------------------------- C1 .. C6
Called == last # NoCall
InBounds == last.row < 3 /\ last.col < 3
Target == last.row * 3 + last.col

\* C1: Board::place(row, col, p) with row >= 3 or col >= 3 returns false and
\* leaves all nine cells unchanged, whatever the board and the player.
C1_OutOfBoundsRejected ==
    (Called /\ (last.row >= 3 \/ last.col >= 3))
        => (last.ret = FALSE /\ \A i \in 0 .. 8 : board[i] = last.before[i])

C1_Witness ==
    /\ Called /\ last.row < 3 /\ last.col >= 3
    /\ last.ret = FALSE
    /\ \E i, j \in 0 .. 8 : board[i] = Some("X") /\ board[j] = Some("O")

\* C2: Board::place on an in-bounds cell that is already occupied, by either
\* player, returns false and leaves all nine cells unchanged; the same call made
\* again on the resulting board again returns false and leaves it unchanged.
C2_OccupiedRejected ==
    (Called /\ InBounds /\ last.before[Target] # None)
        => /\ last.ret = FALSE
           /\ \A i \in 0 .. 8 : board[i] = last.before[i]
           /\ LET again == place(board, last.row, last.col, last.p) IN
              /\ again.ret = FALSE
              /\ \A i \in 0 .. 8 : again.cells[i] = last.before[i]

C2_Witness ==
    /\ Called /\ InBounds
    /\ last.before[Target] = Some(last.p)
    /\ last.ret = FALSE
    /\ \E i \in 0 .. 8 : last.before[i] = Some(other(last.p))

\* C3: Board::place on an in-bounds empty cell returns true, sets exactly the
\* cell row * 3 + col to the player and leaves the other eight cells unchanged.
C3_PlaceSetsOneCell ==
    (Called /\ InBounds /\ last.before[Target] = None)
        => /\ last.ret = TRUE
           /\ board[Target] = Some(last.p)
           /\ \A i \in 0 .. 8 : i # Target => board[i] = last.before[i]

C3_Witness ==
    /\ Called /\ InBounds /\ last.row # last.col
    /\ last.before[Target] = None
    /\ last.ret = TRUE
    /\ \E i \in 0 .. 8 : last.before[i] # None

\* C4: after any sequence of Board::place calls from Board::new(), a cell is
\* non-empty exactly when some successful place targeted it, it holds the player
\* of that place, and no occupied cell becomes empty or changes its occupant.
C4_CellsAreThePlacedOnes ==
    /\ \A i \in 0 .. 8 :
          board[i] # None <=> \E c \in placed : c[1] * 3 + c[2] = i
    /\ \A c \in placed : board[c[1] * 3 + c[2]] = Some(c[3])
    /\ Called => \A i \in 0 .. 8 :
                    last.before[i] # None => board[i] = last.before[i]

C4_Witness ==
    /\ Called /\ last.ret = FALSE /\ InBounds
    /\ Cardinality(placed) = 5
    /\ \E c, d \in placed : c[3] # d[3]

\* C5: after any sequence of Board::place calls from Board::new(),
\* available_moves() is the indices of the empty cells, each once, in strictly
\* increasing order, so its length plus the number of occupied cells is 9.
C5_AvailableMovesAreTheEmptyCells ==
    LET moves == available_moves(board) IN
    /\ \A k \in 1 .. Len(moves) - 1 : moves[k] < moves[k + 1]
    /\ {moves[k] : k \in 1 .. Len(moves)} = {i \in 0 .. 8 : board[i] = None}
    /\ Len(moves) + Cardinality({i \in 0 .. 8 : board[i] # None}) = 9

C5_Witness ==
    /\ Called /\ last.ret = TRUE
    /\ board[8] = None /\ board[0] = None /\ board[4] # None
    /\ Len(available_moves(board)) = 5

\* C6: for every assignment of the nine cells, Board::winner() returns the
\* player that owns the first of the triples (0,1,2), (3,4,5), (6,7,8), (0,3,6),
\* (1,4,7), (2,5,8), (0,4,8), (2,4,6) owned by one player, and None exactly when
\* no triple is owned by one player.
TriplesOfTheClaim ==
    << <<0, 1, 2>>, <<3, 4, 5>>, <<6, 7, 8>>, <<0, 3, 6>>,
       <<1, 4, 7>>, <<2, 5, 8>>, <<0, 4, 8>>, <<2, 4, 6>> >>

OwnerOfTriple(k) ==
    LET t == TriplesOfTheClaim[k] IN
    IF board[t[1]] # None /\ board[t[1]] = board[t[2]] /\ board[t[2]] = board[t[3]]
    THEN board[t[1]]
    ELSE None

OwnedTriples == {k \in 1 .. 8 : OwnerOfTriple(k) # None}

C6_WinnerIsFirstOwnedTriple ==
    IF OwnedTriples = {}
    THEN winner(board) = None
    ELSE /\ winner(board) # None
         /\ winner(board) =
               OwnerOfTriple(CHOOSE k \in OwnedTriples : \A j \in OwnedTriples : k <= j)

C6_Witness ==
    /\ OwnerOfTriple(2) = Some("X")
    /\ OwnerOfTriple(3) = Some("O")
    /\ OwnedTriples = {2, 3}
    /\ winner(board) = Some("X")

\* ------------------------------------------------------------ C9, C10
Asked == found # NoCall

Owns(b, p) ==
    \E k \in 1 .. 8 : \A j \in 1 .. 3 : b[TriplesOfTheClaim[k][j]] = Some(p)

HasWinnerOrIsFull(b) ==
    Owns(b, "X") \/ Owns(b, "O") \/ \A i \in 0 .. 8 : b[i] # None

\* C9: find_best_move(board, ai_player) returns None only on a board that has
\* a winner or is full; on every other board, for either ai_player, it returns
\* Some(i) with i the index of an empty cell of the board.
C9_NoneOnlyOnTerminalBoard ==
    Asked =>
        /\ found.move = None => HasWinnerOrIsFull(board)
        /\ ~HasWinnerOrIsFull(board) =>
               \E i \in 0 .. 8 : found.move = Some(i) /\ board[i] = None

\* find_best_move has answered on an unfinished board on which every move of
\* ai_player (O) loses at once: X holds 0, 1 and 3, so X completes 0-1-2 or
\* 0-3-6 whatever O does.
C9_Witness ==
    /\ Asked
    /\ found.ai = "O"
    /\ board[0] = Some("X") /\ board[1] = Some("X") /\ board[3] = Some("X")
    /\ board[4] = Some("O") /\ board[8] = Some("O")
    /\ \A i \in {2, 5, 6, 7} : board[i] = None
    /\ found.move # None

\* tests::minimax_block_and_win: X at 0 and 1, O at 4.
BlockAndWinBoard ==
    [i \in Indices |-> IF i \in {0, 1} THEN Some("X")
                       ELSE IF i = 4 THEN Some("O") ELSE None]

\* C10: on the board with X at cells 0 and 1 and O at cell 4, find_best_move
\* returns Some(2) for ai_player X and Some(2) for ai_player O.
C10_BlockAndWin ==
    (Asked /\ board = BlockAndWinBoard) => found.move = Some(2)

C10_Witness ==
    /\ Asked
    /\ board = BlockAndWinBoard
    /\ found.ai = "O"
    /\ found.move = Some(2)

\* ------------------------------------------------------------------ C7
\* The game-theoretic value of a position of alternating play, for X: 1 if X
\* wins, 0 for a draw, -1 if O wins, when both sides play optimally from the
\* position on.  The player to move is the one the counts of marks give.
Marks(b, p) == Cardinality({i \in 0 .. 8 : b[i] = Some(p)})
ToMove(b) == IF Marks(b, "X") = Marks(b, "O") THEN "X" ELSE "O"
AlternatingCounts(b) == Marks(b, "X") - Marks(b, "O") \in {0, 1}

Largest(S) == CHOOSE m \in S : \A x \in S : x <= m
Smallest(S) == CHOOSE m \in S : \A x \in S : m <= x

\* `below` holds the values of the positions with one empty cell fewer.
ValueOf(b, below) ==
    IF Owns(b, "X") THEN 1
    ELSE IF Owns(b, "O") THEN 0 - 1
    ELSE IF \A i \in 0 .. 8 : b[i] # None THEN 0
    ELSE LET after == {below[board_code([b EXCEPT ![i] = Some(ToMove(b))])] :
                          i \in {j \in 0 .. 8 : b[j] = None}}
         IN IF ToMove(b) = "X" THEN Largest(after) ELSE Smallest(after)

Values(n, below) ==
    [c \in BoardCodes |->
        IF empties_of[c] = n /\ AlternatingCounts(board_of[c])
        THEN ValueOf(board_of[c], below)
        ELSE 0]

Values_0 == Values(0, <<>>)
Values_1 == Values(1, Values_0)
Values_2 == Values(2, Values_1)
Values_3 == Values(3, Values_2)
Values_4 == Values(4, Values_3)
Values_5 == Values(5, Values_4)
Values_6 == Values(6, Values_5)
Values_7 == Values(7, Values_6)
Values_8 == Values(8, Values_7)
Values_9 == Values(9, Values_8)

AllValues ==
    << Values_0, Values_1, Values_2, Values_3, Values_4,
       Values_5, Values_6, Values_7, Values_8, Values_9 >>

\* The value of position b for player p.
ValueFor(b, p) ==
    LET v == AllValues[empties(b) + 1][board_code(b)]
    IN IF p = "X" THEN v ELSE 0 - v

\* The position after ai_player plays at cell i.
Played(i) == [board EXCEPT ![i] = Some(found.ai)]

\* C7 as stated: at every unfinished position of alternating play at which it
\* is ai_player's turn, the position after the move find_best_move returns is
\* worth at least a draw to ai_player.
C7_NeverLoses ==
    Asked =>
        /\ found.move # None
        /\ ValueFor(Played(unwrap(found.move)), found.ai) >= 0

\* C7, amended: at every unfinished position of alternating play at which it
\* is ai_player's turn and which is not already a forced loss for ai_player,
\* the position after the move find_best_move returns is worth at least a draw
\* to ai_player.
C7_NeverLosesUnlessLost ==
    (Asked /\ ValueFor(board, found.ai) >= 0) =>
        /\ found.move # None
        /\ ValueFor(Played(unwrap(found.move)), found.ai) >= 0

\* find_best_move has answered at a drawn position at which some move loses.
C7_Witness ==
    /\ Asked
    /\ ValueFor(board, found.ai) = 0
    /\ \E i \in 0 .. 8 : board[i] = None /\ ValueFor(Played(i), found.ai) < 0
    /\ found.move # None
    /\ ValueFor(Played(unwrap(found.move)), found.ai) = 0

EmptyCells == {i \in 0 .. 8 : board[i] = None}

\* The minimax score, for ai, of the position after `mover` plays at cell i.
ScoreAfter(i, mover, ai) ==
    minimax([board EXCEPT ![i] = Some(mover)], other(mover), ai).score

\* The empty cells whose position has the best score for the mover: the
\* maximum if the mover is ai, the minimum otherwise.
BestCells(mover, ai) ==
    {i \in EmptyCells :
        \A j \in EmptyCells :
            IF mover = ai
            THEN ScoreAfter(j, mover, ai) <= ScoreAfter(i, mover, ai)
            ELSE ScoreAfter(i, mover, ai) <= ScoreAfter(j, mover, ai)}

FirstBestCell(mover, ai) ==
    CHOOSE i \in BestCells(mover, ai) : \A j \in BestCells(mover, ai) : i <= j

\* C11: on every board without a winner that is not full, for either
\* ai_player, find_best_move returns the smallest index among the empty cells
\* whose position has the maximum minimax score for ai_player; a call of
\* minimax for the opponent's turn returns the smallest index among those of
\* minimum score.
C11_FirstWinsOnTie ==
    (Asked /\ ~HasWinnerOrIsFull(board)) =>
        IF found.op = "find_best_move"
        THEN found.move = Some(FirstBestCell(found.ai, found.ai))
        ELSE found.move = Some(FirstBestCell(found.current, found.ai))

\* find_best_move has answered on a board with several best cells, the first
\* of which is not the first empty cell.
C11_Witness ==
    /\ Asked
    /\ found.op = "find_best_move"
    /\ ~HasWinnerOrIsFull(board)
    /\ Cardinality(BestCells(found.ai, found.ai)) >= 2
    /\ \E i \in EmptyCells : i < FirstBestCell(found.ai, found.ai)
    /\ found.move = Some(FirstBestCell(found.ai, found.ai))

\* ----------------------------------------------------------------- C15
FirstOwner ==
    IF OwnedTriples = {} THEN None
    ELSE OwnerOfTriple(CHOOSE k \in OwnedTriples : \A j \in OwnedTriples : k <= j)

\* C15: on a board with a winner minimax returns score 1 if the winner is ai
\* and -1 otherwise, also when the board is full; it returns score 0 on a full
\* board without a winner; in these three cases the move is None, and on every
\* other board the move is not None.
C15_TerminalCases ==
    (Asked /\ found.op = "minimax") =>
        IF FirstOwner # None
        THEN /\ found.score = (IF FirstOwner = Some(found.ai) THEN 1 ELSE 0 - 1)
             /\ found.move = None
        ELSE IF EmptyCells = {}
        THEN found.score = 0 /\ found.move = None
        ELSE found.move # None

\* minimax has answered on a full board that has a winner which is not ai.
C15_Witness ==
    /\ Asked
    /\ found.op = "minimax"
    /\ EmptyCells = {}
    /\ FirstOwner = Some("X")
    /\ found.ai = "O"
    /\ found.score = 0 - 1
    /\ found.move = None

\* ----------------------------------------------------------------- C12
\* C12: find_best_move(board, ai_player) leaves the caller's board unchanged:
\* on every board all nine cells are the same after the call as before it.
C12_CallerBoardUnchanged ==
    Asked => \A i \in 0 .. 8 : board[i] = found.before[i]

\* find_best_move has searched a board with several empty cells.
C12_Witness ==
    /\ Asked
    /\ found.op = "find_best_move"
    /\ found.move # None
    /\ Cardinality({i \in 0 .. 8 : found.before[i] = None}) >= 2
    /\ board = found.before

\* ------------------------------------------------------------ C13, C14
\* Cell i is empty and a mark of p there completes one of the eight lines.
CompletesLine(i, p) ==
    /\ found.before[i] = None
    /\ Owns([found.before EXCEPT ![i] = Some(p)], p)

C16_TerminalIsAbsorbing ==
    /\ [](Asked => ~HasWinnerOrIsFull(found.before) /\ found.move # None)
    /\ [](HasWinnerOrIsFull(board) => pc \notin {"user", "ai"})
    /\ [][HasWinnerOrIsFull(board) => (board' = board /\ found' = found)]_vars

\* play_game has left its main loop on a full board after a move of the
\* machine.
C16_Witness ==
    /\ pc = "finish"
    /\ Asked
    /\ \A i \in 0 .. 8 : board[i] # None
    /\ found.before # board

\* ----------------------------------------------------------------- C17
\* C17: in every position of alternating legal play from the empty board, X
\* first, that stops as soon as the board has a winner or is full, X and O
\* never both own a line: all the owned triples have one owner, and winner()
\* is that owner in whatever order the eight lines are checked.
C17_OneOwnerOfLines ==
    /\ ~(Owns(board, "X") /\ Owns(board, "O"))
    /\ \A k \in OwnedTriples, j \in OwnedTriples : OwnerOfTriple(k) = OwnerOfTriple(j)
    /\ \A k \in OwnedTriples : winner(board) = OwnerOfTriple(k)

\* A position in which the last mark completed two lines at once.
C17_Witness ==
    /\ Cardinality(OwnedTriples) = 2
    /\ winner(board) = Some("X")
    /\ turn = "O"

\* ----------------------------------------------------------------- C18
\* C18: play_game leaves its main loop exactly on a board that has a winner
\* or is full; it then has reported the win of w exactly when w owns a line,
\* also on a full board, and a draw exactly when the board is full and nobody
\* owns a line; while neither holds it is somebody's turn and no result has
\* been reported.
C18_OutcomeFromBoard ==
    /\ pc = "finish" =>
          /\ HasWinnerOrIsFull(board)
          /\ \A w \in Players : written = "Gana " \o w \o "!" <=> Owns(board, w)
          /\ written = "Empate." <=>
                 (EmptyCells = {} /\ ~Owns(board, "X") /\ ~Owns(board, "O"))
    /\ (pc \in {"loop", "user", "ai"} /\ ~HasWinnerOrIsFull(board)) =>
          written \notin {"Gana X!", "Gana O!", "Empate."}
    /\ pc \in {"user", "ai"} => ~HasWinnerOrIsFull(board)

\* The ninth placement has filled the board and completed a line, and the win
\* has been reported.
C18_Witness ==
    /\ pc = "finish"
    /\ EmptyCells = {}
    /\ Owns(board, "X")
    /\ written = "Gana X!"

\* ----------------------------------------------------------------- C19
\* The cells that differ between the board before and after a step.
ChangedCells == {i \in 0 .. 8 : board'[i] # board[i]}

\* C19: in play_game the number of X marks minus the number of O marks is 0
\* when it is X's turn and 1 when it is O's turn, whichever symbol the human
\* chose; a step that passes the turn places exactly one mark, of the player
\* whose turn it was, on an empty cell, and a step that does not pass the turn
\* (a rejected input among them) places nothing.
C19_TurnsAlternate ==
    /\ [](Marks(board, "X") - Marks(board, "O") = (IF turn = "X" THEN 0 ELSE 1))
    /\ [][IF turn' # turn
          THEN /\ turn' = other(turn)
               /\ \E i \in 0 .. 8 :
                     /\ ChangedCells = {i}
                     /\ board[i] = None
                     /\ board'[i] = Some(turn)
          ELSE board' = board]_vars

\* The human plays O, it is O's turn after the machine's first mark, and an
\* input of the human has just been rejected.
C19_Witness ==
    /\ pc = "user"
    /\ user_player = Some("O")
    /\ turn = "O"
    /\ written = "Casilla ocupada o coordenada invalida."
    /\ Marks(board, "X") = 2 /\ Marks(board, "O") = 1

\* ----------------------------------------------------------------- C20
Returned == pc \in {"returned_ok", "returned_err"}

\* C20: if every prompt is eventually answered by an input that leaves it,
\* play_game returns; a mark once placed stays, so there are at most nine
\* successful placements; the main loop is left only on a board that has a
\* winner or is full; and a return from a prompt (the end of input) changes no
\* cell.
C20_PlayGameTerminates ==
    /\ <>Returned
    /\ [](pc = "finish" => HasWinnerOrIsFull(board))
    /\ [][\A i \in 0 .. 8 : board[i] # None => board'[i] = board[i]]_vars
    /\ [][(pc \in {"choose", "user"} /\ Returned') => board' = board]_vars

\* play_game has returned after a game played to a full board.
C20_Witness ==
    /\ pc = "returned_ok"
    /\ written = "Fin del juego."
    /\ \A i \in 0 .. 8 : board[i] # None


====
